---- MODULE Spec2Model ----
(***************************************************************************)
(* A model of src/app/page.tsx: the ASCII editor page.  The state is the   *)
(* React state of Page (imgUrl, imgEl, settings, asciiText), the output    *)
(* canvas, the Image elements whose onload has not fired yet, and the      *)
(* re-render effect that is still to run.  Every event handler and effect  *)
(* is one action.                                                          *)
(*                                                                         *)
(* Numbers: the code computes in IEEE doubles.  Here every quotient is     *)
(* kept as an exact fraction <<numerator, denominator>> with a positive    *)
(* denominator, and Math.floor / Math.round are taken of the fraction.  A   *)
(* double differs from the exact value only where a product or quotient    *)
(* falls exactly on a rounding boundary; on the images, settings and       *)
(* colours enumerated below both give the same integers.                   *)
(* settings.bold is held in hundredths (the slider's step is 0.01).        *)
(* Text is a sequence of UTF-16 code units (32 is the blank, 10 the line   *)
(* break).                                                                 *)
(***************************************************************************)
EXTENDS Integers, Sequences, FiniteSets, TLC

VARIABLES
  imgUrl,       \* useState imgUrl: 0 is null, n > 0 the n-th object URL
  imgEl,        \* useState imgEl: Null or the loaded Image element
  settings,     \* useState settings
  asciiText,    \* useState asciiText
  loading,      \* Image elements created by the loading effect, onload not fired yet
  canvas,       \* the output canvas: size, background fill, font, fillText calls
  pass,         \* what the last run of draw() read and computed (its locals)
  pendingDraw,  \* the re-render effect is scheduled and has not run yet
  clipboard,    \* what copyAscii last wrote to the clipboard
  download,     \* what downloadPng last exported
  lastEdit,     \* the last user input delivered to a settings control
  nFiles,       \* number of files chosen so far
  nClicks,      \* number of inputs to the controls and clicks on the buttons so far
  probe         \* two pixels, a ramp and the invert mode, and the indices pickChar uses for them

vars == <<imgUrl, imgEl, settings, asciiText, loading, canvas, pass, pendingDraw,
          clipboard, download, lastEdit, nFiles, nClicks, probe>>

-----------------------------------------------------------------------------
(* Bounds of the model *)

MaxFiles == 2
MaxClicks == 1

-----------------------------------------------------------------------------
(* Exact fractions *)

Q(n, d) == <<n, d>>
QInt(n) == <<n, 1>>
QAdd(a, b) == <<a[1] * b[2] + b[1] * a[2], a[2] * b[2]>>
QSub(a, b) == <<a[1] * b[2] - b[1] * a[2], a[2] * b[2]>>
QMul(a, b) == <<a[1] * b[1], a[2] * b[2]>>
QDiv(a, b) == <<a[1] * b[2], a[2] * b[1]>>
QLe(a, b) == a[1] * b[2] <= b[1] * a[2]
QMax(a, b) == IF QLe(a, b) THEN b ELSE a
QMin(a, b) == IF QLe(a, b) THEN a ELSE b
\* Math.floor
QFloor(a) == a[1] \div a[2]
\* Math.round: the nearest integer, halves rounded up
QRound(a) == (2 * a[1] + a[2]) \div (2 * a[2])

Max(a, b) == IF a >= b THEN a ELSE b
Min(a, b) == IF a <= b THEN a ELSE b

-----------------------------------------------------------------------------
(* Module-level code of page.tsx *)

DEFAULT_CHARSET ==
  <<
    32, 46, 39, 96, 94, 34, 44, 58, 59, 73, 108, 33, 105, 126, 43, 95, 45,
    63, 93, 91, 125, 123, 49, 41, 40, 124, 92, 47, 116, 102, 106, 114, 120, 110,
    117, 118, 99, 122, 88, 89, 85, 74, 67, 76, 81, 48, 79, 90, 109, 119, 113,
    112, 100, 98, 107, 104, 97, 111, 42, 35, 77, 87, 38, 56, 37, 66, 64, 36
  >>

\* clamp on integers
clamp(n, a, b) == Max(a, Min(b, n))
\* clamp on fractions
QClamp(v, a, b) == QMax(a, QMin(b, v))

\* 0.2126 * r + 0.7152 * g + 0.0722 * b
luminance(r, g, b) == Q(2126 * r + 7152 * g + 722 * b, 10000)

\* What appending or drawing the value undefined gives: the text "undefined"
UndefinedText == <<117, 110, 100, 101, 102, 105, 110, 101, 100>>

\* Variant of PickIdx that reads the ramp from its other end
PickIdxReversed(v01, charset) ==
  QRound(QMul(QSub(QInt(1), QClamp(v01, QInt(0), QInt(1))), QInt(Len(charset) - 1)))

\* const idx = Math.round(clamp(v01, 0, 1) * (charset.length - 1))
PickIdx(v01, charset) ==
  QRound(QMul(QClamp(v01, QInt(0), QInt(1)), QInt(Len(charset) - 1)))

\* return charset[idx]   (idx counts from 0, sequences from 1); the result is
\* the text it contributes where it is used: one code unit, or "undefined"
\* when idx is no position of charset
pickChar(v01, charset) ==
  LET idx == PickIdx(v01, charset)
  IN  IF idx + 1 \in DOMAIN charset THEN <<charset[idx + 1]>> ELSE UndefinedText

\* let lum = luminance(R, G, B) / 255; if (settings.invert) lum = 1 - lum
Brightness(R, G, B, invert) ==
  LET lum == QDiv(luminance(R, G, B), QInt(255))
  IN  IF invert THEN QSub(QInt(1), lum) ELSE lum

-----------------------------------------------------------------------------
(* Images.  A file is its natural size and the pattern of its pixels; an   *)
(* Image element is the object URL it was created for and the file.        *)

Null == [url |-> 0, file |-> [width |-> 0, height |-> 0, kind |-> "null"]]

\* The pixel at (px, py) of the w x h input canvas after drawImage, as
\* <<R, G, B, A>>.  "gradient" darkens from left to right, "holes" mixes
\* alpha 0, 9, 10 and 255, "flat" is one opaque grey (so scaling it down
\* leaves it as it is).
PixelAt(file, w, h, px, py) ==
  CASE file.kind = "gradient" ->
         <<(255 * px) \div Max(1, w - 1), (255 * px) \div Max(1, w - 1),
           (255 * py) \div Max(1, h - 1), 255>>
    [] file.kind = "holes" ->
         <<200, (40 * px) % 256, 30,
           CASE (px + py) % 4 = 0 -> 0
             [] (px + py) % 4 = 1 -> 9
             [] (px + py) % 4 = 2 -> 10
             [] OTHER -> 255>>
    [] OTHER -> <<128, 128, 128, 255>>

\* getImageData(0, 0, w, h).data[i .. i + 3] for the base index i of a pixel;
\* ok is FALSE when the index lies outside the w * h * 4 buffer, where every
\* read gives undefined
ImgData(file, w, h, i) ==
  IF 0 <= i /\ i + 3 <= w * h * 4 - 1
  THEN LET p == i \div 4
           px == PixelAt(file, w, h, p % w, p \div w)
       IN  [ok |-> TRUE, R |-> px[1], G |-> px[2], B |-> px[3], A |-> px[4]]
  ELSE [ok |-> FALSE, R |-> 0, G |-> 0, B |-> 0, A |-> 0]

-----------------------------------------------------------------------------
(* draw() *)

MAX_W == 1400

\* const scaleDown = Math.min(1, MAX_W / imgEl.width)
\* const w = Math.max(1, Math.floor(imgEl.width * scaleDown))
\* const h = Math.max(1, Math.floor(imgEl.height * scaleDown))
ScaleDown(file) == QMin(QInt(1), Q(MAX_W, file.width))
WorkW(file) == Max(1, QFloor(QMul(QInt(file.width), ScaleDown(file))))
WorkH(file) == Max(1, QFloor(QMul(QInt(file.height), ScaleDown(file))))

\* const w = Math.round(300 + settings.bold * 600); return clamp(w, 300, 900)
fontWeight(s) ==
  clamp(QRound(QAdd(QInt(300), QMul(Q(s.bold, 100), QInt(600)))), 300, 900)

\* const cols = clamp(settings.scale, 40, 400)
Cols(s) == clamp(s.scale, 40, 400)
\* const cellW = w / cols
CellW(w, cols) == Q(w, cols)
\* const cellH = cellW * 1.8
CellH(cellW) == QMul(cellW, Q(18, 10))
\* const rows = Math.floor(h / cellH)
Rows(h, cellH) == QFloor(QDiv(QInt(h), cellH))

\* const x = Math.floor(c * cellW), and y likewise from r and cellH
Origin(k, cell) == QFloor(QMul(QInt(k), cell))

\* Variant of Sample that takes the cell's far edge and does not clamp
SampleFarEdge(origin, cell, size) == QFloor(QAdd(QInt(origin), cell))

\* const sx = clamp(Math.floor(x + cellW / 2), 0, w - 1), and sy likewise
Sample(origin, cell, size) ==
  clamp(QFloor(QAdd(QInt(origin), QDiv(cell, QInt(2)))), 0, size - 1)

\* Variant of Transparent that skips fully transparent pixels only
TransparentZeroOnly(A) == A = 0

\* if (A < 10)
Transparent(A) == A < 10

Black == <<0, 0, 0>>
White == <<255, 255, 255>>

\* Concatenation of the sequences f[lo], ..., f[hi], in this order: what a
\* loop that appends f[lo], then f[lo + 1], ... has built at its end
RECURSIVE Concat(_, _, _)
Concat(f, lo, hi) ==
  IF lo > hi THEN <<>>
  ELSE IF lo = hi THEN f[lo]
  ELSE LET mid == (lo + hi) \div 2
       IN  Concat(f, lo, mid) \o Concat(f, mid + 1, hi)

\* One run of the body of the inner loop, for cell (r, c): the pixel read,
\* what is appended to the row string, and the fillText call made (tagged with
\* its cell), if any.  A read outside the buffer gives undefined, which is not
\* < 10 and makes pickChar return undefined.
Cell(g, r, c) ==
  LET x == Origin(c, g.cellW)
      y == Origin(r, g.cellH)
      sx == Sample(x, g.cellW, g.w)
      sy == Sample(y, g.cellH, g.h)
      i == (sy * g.w + sx) * 4
      px == ImgData(g.file, g.w, g.h, i)
      read == [r |-> r, c |-> c, sx |-> sx, sy |-> sy, i |-> i]
  IN  IF px.ok /\ Transparent(px.A)
      THEN [read |-> read, picked |-> FALSE, text |-> <<32>>, calls |-> <<>>]
      ELSE LET ch == IF px.ok
                     THEN pickChar(Brightness(px.R, px.G, px.B, g.s.invert), g.s.charset)
                     ELSE UndefinedText
               fill == IF g.s.colored
                       THEN (IF px.ok THEN <<px.R, px.G, px.B>> ELSE <<-1, -1, -1>>)
                       ELSE (IF g.s.bg = "white" THEN Black ELSE White)
           IN  [read |-> read, picked |-> TRUE, text |-> ch,
                calls |-> <<[ch |-> ch, x |-> x, y |-> y, fill |-> fill,
                             r |-> r, c |-> c]>>]

\* for (let r ...) { let line = ""; for (let c ...) { ... } lines.push(line) }:
\* steps is what the runs of the loop body did, in the order of the loops; from
\* it, the rows pushed, the fillText calls made, the pixels read and the cells
\* pickChar was called for
Loops(g) ==
  LET row(r) == Concat([c \in 0 .. g.cols - 1 |-> <<Cell(g, r, c)>>], 0, g.cols - 1)
      steps == Concat([r \in 0 .. g.rows - 1 |-> row(r)], 0, g.rows - 1)
      n == g.rows * g.cols
      line(r) == Concat([c \in 0 .. g.cols - 1 |-> steps[r * g.cols + c + 1].text],
                        0, g.cols - 1)
  IN  [lines |-> [k \in 1 .. g.rows |-> line(k - 1)],
       calls |-> Concat([k \in 1 .. n |-> steps[k].calls], 1, n),
       reads |-> [k \in 1 .. n |-> steps[k].read],
       picked |-> {<<steps[k].read.r, steps[k].read.c>> :
                     k \in {j \in 1 .. n : steps[j].picked}}]

\* Variant of JoinLines that ends every row with a line break
RECURSIVE JoinTrailing(_)
JoinTrailing(lines) ==
  IF lines = <<>> THEN <<>> ELSE Head(lines) \o <<10>> \o JoinTrailing(Tail(lines))

\* lines.join("\n")
RECURSIVE JoinLines(_)
JoinLines(lines) ==
  IF lines = <<>> THEN <<>>
  ELSE IF Len(lines) = 1 THEN Head(lines)
  ELSE Head(lines) \o <<10>> \o JoinLines(Tail(lines))

\* The whole of draw() past its early returns, on the image and the settings
\* of the render it closes over
Draw(img, s) ==
  LET w == WorkW(img.file)
      h == WorkH(img.file)
      cols == Cols(s)
      cellW == CellW(w, cols)
      cellH == CellH(cellW)
      rows == Rows(h, cellH)
      bg == IF s.bg # "transparent"
            THEN (IF s.bg = "black" THEN "#000" ELSE "#fff")
            ELSE "none"
      g == [file |-> img.file, w |-> w, h |-> h, s |-> s, cols |-> cols,
            rows |-> rows, cellW |-> cellW, cellH |-> cellH]
      out == Loops(g)
  IN  [w |-> w, h |-> h, cols |-> cols, rows |-> rows, bg |-> bg,
       font |-> [weight |-> fontWeight(s), size |-> s.fontSize],
       calls |-> out.calls, reads |-> out.reads, picked |-> out.picked,
       text |-> JoinLines(out.lines)]

-----------------------------------------------------------------------------
(* The page *)

InitSettings ==
  [scale |-> 120, fontSize |-> 10, bold |-> 60, invert |-> FALSE,
   colored |-> FALSE, bg |-> "black", charset |-> DEFAULT_CHARSET]

\* A canvas element before anything was drawn on it
BlankCanvas ==
  [width |-> 300, height |-> 150, bg |-> "none",
   font |-> [weight |-> 400, size |-> 10], calls |-> <<>>]

NoPass ==
  [ran |-> FALSE, img |-> Null, s |-> InitSettings, cols |-> 0, rows |-> 0,
   reads |-> <<>>, picked |-> {}]

NoProbe ==
  [done |-> FALSE, p |-> Black, q |-> Black, charset |-> <<>>, invert |-> FALSE,
   ip |-> 0, iq |-> 0]

\* The files the user picks from
Files ==
  { [width |-> 60, height |-> 1, kind |-> "holes"],
    [width |-> 2800, height |-> 8, kind |-> "flat"] }

\* What the controls deliver: the sliders stay inside their min and max
ScaleInputs == {40}
FontSizeInputs == {24}
BoldInputs == {100}
BgInputs == {"white", "transparent"}
CharsetInputs == {<<>>, <<32, 10, 35>>}

\* Variant of ScheduleDraw whose dependency list is [imgEl] alone
ScheduleDrawImageOnly(imgChanged, settingsChanged) == imgChanged

\* useEffect(() => { draw() }, [imgEl, settings]): the effect runs after a
\* render in which imgEl or settings is another value than in the last one
ScheduleDraw(imgChanged, settingsChanged) == imgChanged \/ settingsChanged

Init ==
  /\ imgUrl = 0
  /\ imgEl = Null
  /\ settings = InitSettings
  /\ asciiText = <<>>
  /\ loading = {}
  /\ canvas = BlankCanvas
  /\ pass = NoPass
  /\ pendingDraw = TRUE          \* effects run after the first render
  /\ clipboard = <<>>
  /\ download = BlankCanvas
  /\ lastEdit = [field |-> "none", empty |-> FALSE]
  /\ nFiles = 0
  /\ nClicks = 0
  /\ probe = NoProbe

\* onFile(file), the render it causes and the image-loading effect of that
\* render: the clean-up of the previous run (if it returned one) sets imgEl to
\* null, then a new Image is created whose onload is still to come
OnFile(f) ==
  /\ nFiles < MaxFiles
  /\ nFiles' = nFiles + 1
  /\ imgUrl' = nFiles + 1
  /\ imgEl' = IF imgUrl # 0 THEN Null ELSE imgEl
  /\ loading' = loading \cup {[url |-> nFiles + 1, file |-> f]}
  /\ pendingDraw' = (pendingDraw \/ ScheduleDraw(imgEl' # imgEl, FALSE))
  /\ UNCHANGED <<settings, asciiText, canvas, pass, clipboard, download, lastEdit,
                 nClicks, probe>>

\* img.onload = () => setImgEl(img)
OnLoad(img) ==
  /\ img \in loading
  /\ loading' = loading \ {img}
  /\ imgEl' = img
  /\ pendingDraw' = (pendingDraw \/ ScheduleDraw(imgEl' # imgEl, FALSE))
  /\ UNCHANGED <<imgUrl, settings, asciiText, canvas, pass, clipboard, download,
                 lastEdit, nFiles, nClicks, probe>>

\* setSettings((s) => ({ ...s, <field>: v })) always makes a new settings value
Edit(field, empty, s) ==
  /\ nClicks < MaxClicks
  /\ nClicks' = nClicks + 1
  /\ settings' = s
  /\ lastEdit' = [field |-> field, empty |-> empty]
  /\ pendingDraw' = (pendingDraw \/ ScheduleDraw(FALSE, TRUE))
  /\ UNCHANGED <<imgUrl, imgEl, asciiText, loading, canvas, pass, clipboard,
                 download, nFiles, probe>>

SetScale(v) == Edit("scale", FALSE, [settings EXCEPT !.scale = v])
SetFontSize(v) == Edit("fontSize", FALSE, [settings EXCEPT !.fontSize = v])
SetBold(v) == Edit("bold", FALSE, [settings EXCEPT !.bold = v])
SetInvert(v) == Edit("invert", FALSE, [settings EXCEPT !.invert = v])
SetColored(v) == Edit("colored", FALSE, [settings EXCEPT !.colored = v])
SetBg(v) == Edit("bg", FALSE, [settings EXCEPT !.bg = v])

\* Variant of CharsetOrDefault without the fallback
CharsetAsTyped(text) == text

\* e.target.value || DEFAULT_CHARSET
CharsetOrDefault(text) == IF text = <<>> THEN DEFAULT_CHARSET ELSE text

SetCharset(text) ==
  Edit("charset", text = <<>>, [settings EXCEPT !.charset = CharsetOrDefault(text)])

\* The re-render effect: draw() on the imgEl and settings of the latest render
DrawEffect ==
  /\ pendingDraw
  /\ pendingDraw' = FALSE
  /\ IF imgEl = Null
     THEN UNCHANGED <<asciiText, canvas, pass>>
     ELSE \E d \in {Draw(imgEl, settings)} :
              /\ asciiText' = d.text
              /\ canvas' = [width |-> d.w, height |-> d.h, bg |-> d.bg,
                            font |-> d.font, calls |-> d.calls]
              /\ pass' = [ran |-> TRUE, img |-> imgEl, s |-> settings,
                          cols |-> d.cols, rows |-> d.rows, reads |-> d.reads,
                          picked |-> d.picked]
  /\ UNCHANGED <<imgUrl, imgEl, settings, loading, clipboard, download, lastEdit,
                 nFiles, nClicks, probe>>

\* <button onClick={downloadPng} disabled={!imgEl}>
DownloadEnabled == imgEl # Null
\* <button onClick={copyAscii} disabled={!asciiText}>
CopyEnabled == asciiText # <<>>

DownloadPng ==
  /\ DownloadEnabled
  /\ nClicks < MaxClicks
  /\ nClicks' = nClicks + 1
  /\ download' = canvas
  /\ UNCHANGED <<imgUrl, imgEl, settings, asciiText, loading, canvas, pass,
                 pendingDraw, clipboard, lastEdit, nFiles, probe>>

CopyAscii ==
  /\ CopyEnabled
  /\ nClicks < MaxClicks
  /\ nClicks' = nClicks + 1
  /\ clipboard' = asciiText
  /\ UNCHANGED <<imgUrl, imgEl, settings, asciiText, loading, canvas, pass,
                 pendingDraw, download, lastEdit, nFiles, probe>>

Next ==
  \/ \E f \in Files : OnFile(f)
  \/ \E img \in loading : OnLoad(img)
  \/ \E v \in ScaleInputs : SetScale(v)
  \/ \E v \in FontSizeInputs : SetFontSize(v)
  \/ \E v \in BoldInputs : SetBold(v)
  \/ SetInvert(~settings.invert)
  \/ SetColored(~settings.colored)
  \/ \E v \in BgInputs : SetBg(v)
  \/ \E text \in CharsetInputs : SetCharset(text)
  \/ DrawEffect
  \/ DownloadPng
  \/ CopyAscii

Spec == Init /\ [][Next]_vars

-----------------------------------------------------------------------------
(* draw() as a function of the image and of a settings value of type       *)
(* Settings, whose numbers need not lie inside the sliders' ranges: the     *)
(* page with an image loaded, the settings drawn from DrawSettings, and the *)
(* re-render effect still to run.                                           *)

DrawFiles ==
  Files \cup
  { [width |-> 60, height |-> 2, kind |-> "holes"],
    [width |-> 120, height |-> 2, kind |-> "gradient"],
    [width |-> 40, height |-> 2, kind |-> "gradient"],
    [width |-> 2800, height |-> 60, kind |-> "flat"] }

\* The numbers inside and outside the sliders' ranges, and every combination
\* of the modes and of three character ramps
DrawSettings ==
  { [InitSettings EXCEPT !.scale = sc, !.fontSize = fs, !.bold = bo] :
      sc \in {-5, 39, 40, 400, 401}, fs \in {5, 6, 24, 25}, bo \in {-50, 60, 150} }
  \cup
  { [InitSettings EXCEPT !.scale = sc, !.invert = iv, !.colored = co, !.bg = bg,
                         !.charset = cs] :
      sc \in {40, 120}, iv \in BOOLEAN, co \in BOOLEAN,
      bg \in {"black", "white", "transparent"},
      cs \in {DEFAULT_CHARSET, <<64>>, <<32, 10, 35>>} }

InitDraw ==
  /\ imgUrl = 1
  /\ imgEl \in {[url |-> 1, file |-> f] : f \in DrawFiles}
  /\ settings \in DrawSettings
  /\ asciiText = <<>>
  /\ loading = {}
  /\ canvas = BlankCanvas
  /\ pass = NoPass
  /\ pendingDraw = TRUE
  /\ clipboard = <<>>
  /\ download = BlankCanvas
  /\ lastEdit = [field |-> "none", empty |-> FALSE]
  /\ nFiles = 1
  /\ nClicks = 0
  /\ probe = NoProbe

SpecDraw == InitDraw /\ [][DrawEffect]_vars

-----------------------------------------------------------------------------
(* The character lookup of one cell as a function of the pixel: two opaque *)
(* pixels p and q, a ramp and the invert mode are drawn, and Pick computes  *)
(* for each the index pickChar uses.                                        *)

Channels == {0, 1, 128, 255}
Colours == Channels \X Channels \X Channels
PickCharsets == {<<64>>, <<32, 35>>, <<32, 10, 35>>, DEFAULT_CHARSET}

InitPick ==
  /\ imgUrl = 0
  /\ imgEl = Null
  /\ settings = InitSettings
  /\ asciiText = <<>>
  /\ loading = {}
  /\ canvas = BlankCanvas
  /\ pass = NoPass
  /\ pendingDraw = TRUE
  /\ clipboard = <<>>
  /\ download = BlankCanvas
  /\ lastEdit = [field |-> "none", empty |-> FALSE]
  /\ nFiles = 0
  /\ nClicks = 0
  /\ probe \in [done : {FALSE}, p : Colours, q : Colours, charset : PickCharsets,
                invert : BOOLEAN, ip : {0}, iq : {0}]

\* Lines 133-136 of draw() and line 28 of pickChar, for the pixels p and q
Pick ==
  /\ ~probe.done
  /\ probe' = [probe EXCEPT
       !.done = TRUE,
       !.ip = PickIdx(Brightness(probe.p[1], probe.p[2], probe.p[3], probe.invert),
                      probe.charset),
       !.iq = PickIdx(Brightness(probe.q[1], probe.q[2], probe.q[3], probe.invert),
                      probe.charset)]
  /\ UNCHANGED <<imgUrl, imgEl, settings, asciiText, loading, canvas, pass,
                 pendingDraw, clipboard, download, lastEdit, nFiles, nClicks>>

SpecPick == InitPick /\ [][Pick]_vars

-----------------------------------------------------------------------------
(* Properties *)

\* The transcript positions, fillText calls and reads of the last pass
TextAt(r, c) == asciiText[r * (pass.cols + 1) + c + 1]
ReadAt(r, c) == pass.reads[r * pass.cols + c + 1]
CallTags == {<<canvas.calls[k].r, canvas.calls[k].c>> : k \in DOMAIN canvas.calls}
CallFacts ==
  {<<canvas.calls[k].r, canvas.calls[k].c, canvas.calls[k].ch, canvas.calls[k].x,
     canvas.calls[k].y>> : k \in DOMAIN canvas.calls}
PassCells == (0 .. pass.rows - 1) \X (0 .. pass.cols - 1)
\* The alpha of the pixel a read sampled
AlphaOf(rd) == PixelAt(pass.img.file, canvas.width, canvas.height, rd.sx, rd.sy)[4]
\* Raw luminance of a colour, in units of 1 / 10000
RawLum(p) == 2126 * p[1] + 7152 * p[2] + 722 * p[3]
Quiescent == ~pendingDraw

\* C1: whenever a pass has run on an image whose natural width and height are
\* at least 1, the grid it computed has at least one column and one row.
C1_GridAtLeastOne ==
  (pass.ran /\ pass.img.file.width >= 1 /\ pass.img.file.height >= 1)
    => (pass.cols >= 1 /\ pass.rows >= 1)

\* C2: in every pass, every cell (r, c) of the grid was sampled at a pixel
\* (sx, sy) with 0 <= sx <= w - 1 and 0 <= sy <= h - 1, and the indices read,
\* i .. i + 3 with i = (sy * w + sx) * 4, lie inside the w * h * 4 buffer.
C2_SamplesInBounds ==
  pass.ran =>
    /\ Len(pass.reads) = pass.rows * pass.cols
    /\ \A rc \in PassCells :
         LET rd == ReadAt(rc[1], rc[2])
         IN  /\ rd.r = rc[1] /\ rd.c = rc[2]
             /\ 0 <= rd.sx /\ rd.sx <= canvas.width - 1
             /\ 0 <= rd.sy /\ rd.sy <= canvas.height - 1
             /\ rd.i = (rd.sy * canvas.width + rd.sx) * 4
             /\ 0 <= rd.i /\ rd.i + 3 <= canvas.width * canvas.height * 4 - 1

\* A pass on an out-of-range density that read the last pixel of the buffer
C2_Witness ==
  /\ pass.ran
  /\ pass.s.scale > 400
  /\ pass.rows >= 2
  /\ \E k \in DOMAIN pass.reads :
       pass.reads[k].i + 3 = canvas.width * canvas.height * 4 - 1

\* C3: while no image is loaded, a pass that runs leaves the transcript and
\* the output canvas as they were, and both export buttons are disabled.
C3_NoImageNoExport ==
  [][ /\ (imgEl = Null /\ pendingDraw /\ ~pendingDraw')
         => (asciiText' = asciiText /\ canvas' = canvas)
      /\ (imgEl' = Null) => (~DownloadEnabled' /\ ~CopyEnabled') ]_vars

C5_TranscriptMatchesGlyphs ==
  pass.ran =>
    LET tags == CallTags
        facts == CallFacts
    IN  /\ Len(asciiText) =
             IF pass.rows = 0 THEN 0 ELSE pass.rows * pass.cols + (pass.rows - 1)
        /\ \A r \in 0 .. pass.rows - 2 : asciiText[(r + 1) * (pass.cols + 1)] = 10
        /\ Cardinality(tags) = Len(canvas.calls)
        /\ tags \subseteq PassCells
        /\ \A rc \in PassCells :
             IF rc \in tags
             THEN <<rc[1], rc[2], <<TextAt(rc[1], rc[2])>>,
                    (rc[2] * canvas.width) \div pass.cols,
                    (9 * rc[1] * canvas.width) \div (5 * pass.cols)>> \in facts
             ELSE TextAt(rc[1], rc[2]) = 32

\* A pass of several rows in which some cells were drawn and some skipped
C5_Witness ==
  /\ pass.ran
  /\ pass.rows >= 2
  /\ canvas.calls # <<>>
  /\ Len(canvas.calls) < pass.rows * pass.cols
  /\ \E k \in DOMAIN canvas.calls : canvas.calls[k].ch # <<32>>

\* C6: with invert off the index pickChar uses never decreases as the raw
\* luminance of the pixel increases; with invert on it never increases, and
\* raw luminance 0 and 1 give the last and the first position of the ramp.
C6_PickMonotone ==
  probe.done =>
    LET n == Len(probe.charset)
    IN  /\ probe.ip \in 0 .. n - 1 /\ probe.iq \in 0 .. n - 1
        /\ (~probe.invert /\ RawLum(probe.p) <= RawLum(probe.q)) => probe.ip <= probe.iq
        /\ (probe.invert /\ RawLum(probe.p) <= RawLum(probe.q)) => probe.ip >= probe.iq
        /\ (probe.invert /\ probe.p = Black) => probe.ip = n - 1
        /\ (probe.invert /\ probe.p = White) => probe.ip = 0

\* Two pixels of different luminance that were given different characters of
\* the default ramp, with invert on
C6_Witness ==
  /\ probe.done
  /\ probe.invert
  /\ probe.charset = DEFAULT_CHARSET
  /\ RawLum(probe.p) < RawLum(probe.q)
  /\ probe.ip > probe.iq

\* C7: in every pass, a cell whose sampled pixel has alpha < 10 gets a blank in
\* the transcript, no pickChar call and no fillText call, whatever invert,
\* colored, background and charset are; and the background is still filled as
\* the background mode says.
C7_TransparentCellsBlank ==
  pass.ran =>
    /\ LET tags == CallTags
       IN  \A rc \in PassCells :
             AlphaOf(ReadAt(rc[1], rc[2])) < 10 =>
               /\ TextAt(rc[1], rc[2]) = 32
               /\ rc \notin pass.picked
               /\ rc \notin tags
    /\ canvas.bg = CASE pass.s.bg = "black" -> "#000"
                     [] pass.s.bg = "white" -> "#fff"
                     [] OTHER -> "none"

\* A pass with invert and colour on, a white background and a custom ramp, on
\* an image with a cell of alpha 9
C7_Witness ==
  /\ pass.ran
  /\ pass.s.invert /\ pass.s.colored /\ pass.s.bg = "white"
  /\ pass.s.charset = <<64>>
  /\ \E rc \in PassCells : AlphaOf(ReadAt(rc[1], rc[2])) = 9
  /\ canvas.calls # <<>>

\* C8: the charset in settings is never empty; after an edit that cleared the
\* textarea it is the default ramp, and the pass that follows produces the
\* transcript of the default ramp.
C8_CharsetNeverEmpty ==
  /\ Len(settings.charset) >= 1
  /\ (lastEdit.field = "charset" /\ lastEdit.empty) =>
       /\ settings.charset = DEFAULT_CHARSET
       /\ (Quiescent /\ imgEl # Null) =>
            asciiText = Draw(imgEl, [settings EXCEPT !.charset = DEFAULT_CHARSET]).text

\* The textarea was cleared and the pass after it has produced a transcript
C8_Witness ==
  /\ lastEdit.field = "charset" /\ lastEdit.empty
  /\ Quiescent
  /\ imgEl # Null
  /\ asciiText # <<>>

\* C9: in every state with no pass pending and an image loaded, the stored
\* transcript is the transcript of the loaded image under the current
\* settings, and the last pass read exactly this image and these settings.
C9_TranscriptCurrent ==
  (Quiescent /\ imgEl # Null) =>
    /\ pass.ran /\ pass.img = imgEl /\ pass.s = settings
    /\ asciiText = Draw(imgEl, settings).text

\* The second file picked is loaded, a setting differs from its initial value,
\* and the pass on both has run
C9_Witness ==
  /\ Quiescent
  /\ imgEl # Null /\ imgEl.url = 2
  /\ settings # InitSettings
  /\ asciiText # <<>>

\* C10: once no load is pending, the loaded image is the one of the file
\* picked last.
C10_LatestFileWins ==
  (loading = {} /\ imgUrl # 0) => (imgEl # Null /\ imgEl.url = imgUrl)

====
